---- MODULE Spec2Model ----
(***************************************************************************)
(* Model of the Outlook spam-reporting command handler                     *)
(*   src/src/spamreporting/spamreporting.ts  (onSpamReport and helpers)    *)
(*   src/src/spamreporting/msgraph-helper.ts (Graph GET / POST helpers)    *)
(*                                                                         *)
(* One run of onSpamReport is a sequence of segments separated by awaits   *)
(* on the host or the network.  Each action below is one such segment: it  *)
(* runs from the settlement of the awaited call to the next call that      *)
(* leaves the JavaScript thread (or to the end of the handler).  The host  *)
(* may change the selected item only while the handler is suspended on     *)
(* such a call.                                                            *)
(*                                                                         *)
(* Strings that are taken apart or concatenated by the code are sequences  *)
(* of one-character (or literal-fragment) strings; an Error is identified  *)
(* by its message, a sequence of fragments.                                *)
(***************************************************************************)
EXTENDS Integers, Sequences, FiniteSets, TLC

VARIABLES
    pc,            \* position of the handler
    options,       \* event.options
    mailboxItem,   \* Office.context.mailbox.item (host state)
    userProfile,   \* Office.context.mailbox.userProfile (host state)
    category,      \* local of onSpamReport / parameter of submitEmailThreat
    accessToken,   \* local of submitEmailThreat
    recipientEmail,\* local of submitEmailThreat
    itemId,        \* const itemId of getCurrentMessageUrl
    userId,        \* const userId of getCurrentMessageUrl
    messageUrl,    \* value getCurrentMessageUrl resolved with
    body,          \* request body handed to makeGraphPostRequest
    raised,        \* the step that failed first and the Error it raised
    submitError,   \* the Error submitEmailThreat rejected with
    getResponse,   \* the response fetch gave makeGraphRequest
    postResponse,  \* the response fetch gave makeGraphPostRequest
    calls,         \* external calls issued so far, in order
    signals,       \* arguments of the event.completed calls, in order
    escaped,       \* the Error that left onSpamReport
    itemAtInvoke,  \* history: the item selected when onSpamReport was invoked
    itemAtToken,   \* history: the item selected when the token arrived
    itemRead,      \* history: the item getCurrentMessageUrl saw
    nChanges       \* number of host selection changes so far

vars == <<pc, options, mailboxItem, userProfile, category, accessToken,
          recipientEmail, itemId, userId, messageUrl, body, raised,
          submitError, getResponse, postResponse, calls, signals, escaped,
          itemAtInvoke, itemAtToken, itemRead, nChanges>>

\* bound on the number of selection changes the host makes during one run
MaxSelectionChanges == 2

----------------------------------------------------------------------------
\* Values

NoError == <<>>
NoString == <<>>

\* event.options: absent (undefined), or an object whose keys 0, 1, 2 hold
\* true, false, or nothing (undefined)
OptionValues == {"true", "false", "undefined"}
AbsentOptions == [present |-> FALSE, at |-> [i \in 0..2 |-> "undefined"]]
OptionsSet ==
    {AbsentOptions} \cup
    {[present |-> TRUE, at |-> f] : f \in [0..2 -> OptionValues]}

\* Office.context.mailbox.item: null, an item without itemId, or an item
NoItem == [present |-> FALSE, itemId |-> NoString]
ItemIds == {<<"A", "A", "A", "=">>, <<"B", "/", "+", "=">>}
Items ==
    {NoItem, [present |-> TRUE, itemId |-> NoString]} \cup
    {[present |-> TRUE, itemId |-> i] : i \in ItemIds}

\* Office.context.mailbox.userProfile
UserProfiles ==
    {[present |-> FALSE, emailAddress |-> NoString],
     [present |-> TRUE, emailAddress |-> NoString],
     [present |-> TRUE, emailAddress |-> <<"a", "@", "b">>]}

Tokens == {<<"t", "o", "k">>}

\* HTTP status lines of non-success responses
FailureStatuses ==
    {[status |-> "403", statusText |-> "Forbidden"],
     [status |-> "500", statusText |-> "Internal Server Error"]}

\* JSON documents GET /me?$select=id can answer with
Profiles ==
    {[present |-> FALSE, id |-> NoString],
     [present |-> TRUE, id |-> NoString],
     [present |-> TRUE, id |-> <<"u", "1">>]}

NoProfile == [present |-> FALSE, id |-> NoString]

GetResponses ==
    {[ok |-> TRUE, status |-> "200", statusText |-> "OK", profile |-> p] :
        p \in Profiles} \cup
    {[ok |-> FALSE, status |-> s.status, statusText |-> s.statusText,
      profile |-> NoProfile] : s \in FailureStatuses}

\* Response bodies of a failed POST: the raw text, what JSON.parse makes of
\* it, whether the parsed value has an error member, that member's message
\* and JSON.stringify of that member
ErrorBodies ==
    {[text |-> "Service Unavailable", parse |-> "SyntaxError",
      error |-> "absent", message |-> "", errorJson |-> ""],
     [text |-> "null", parse |-> "null",
      error |-> "absent", message |-> "", errorJson |-> ""],
     [text |-> "{\"foo\":1}", parse |-> "value",
      error |-> "absent", message |-> "", errorJson |-> ""],
     [text |-> "{\"error\":\"\"}", parse |-> "value",
      error |-> "falsy", message |-> "", errorJson |-> "\"\""],
     [text |-> "{\"error\":{\"code\":\"E1\"}}", parse |-> "value",
      error |-> "truthy", message |-> "", errorJson |-> "{\"code\":\"E1\"}"],
     [text |-> "{\"error\":{\"message\":\"Forbidden\"}}", parse |-> "value",
      error |-> "truthy", message |-> "Forbidden",
      errorJson |-> "{\"message\":\"Forbidden\"}"]}

NoBody == [text |-> "", parse |-> "value", error |-> "absent",
           message |-> "", errorJson |-> ""]

PostResponses ==
    {[ok |-> TRUE, status |-> "200", statusText |-> "OK", data |-> NoBody]} \cup
    {[ok |-> FALSE, status |-> s.status, statusText |-> s.statusText,
      data |-> b] : s \in FailureStatuses, b \in ErrorBodies}

NoResponse == [ok |-> FALSE, status |-> "", statusText |-> "", data |-> NoBody]
NoGetResponse == [ok |-> FALSE, status |-> "", statusText |-> "",
                  profile |-> NoProfile]

NoReport == [category |-> "", recipientEmailAddress |-> NoString,
             messageUrl |-> NoString]

\* Errors raised outside this repository's code
InitializeError == <<"initialize failed">>
TokenError == <<"token acquisition failed">>
FetchError == <<"Failed to fetch">>
JsonError == <<"Unexpected token in JSON">>
CompletedError == <<"event.completed failed">>

NoRaise == [step |-> "", error |-> NoError]

----------------------------------------------------------------------------
\* Pure helpers

Carries(message, fragment) == \E i \in 1..Len(message) : message[i] = fragment

RECURSIVE MapChars(_, _)
MapChars(f, s) ==
    IF s = <<>> THEN <<>>
    ELSE <<(IF Head(s) \in DOMAIN f THEN f[Head(s)] ELSE Head(s))>>
         \o MapChars(f, Tail(s))

\* Office.context.mailbox.convertToRestId: the REST form of an EWS identifier
\* is its URL-safe form ('/' becomes '-', '+' becomes '_')
convertToRestId(id) == MapChars([c \in {"/", "+"} |-> IF c = "/" THEN "-" ELSE "_"], id)

\* the category onSpamReport derives from event.options
CategorySpamFirst(reportingOptions) ==
    IF ~reportingOptions.present THEN "phishing"
    ELSE IF reportingOptions.at[1] = "true" THEN "spam"
    ELSE IF reportingOptions.at[0] = "true" THEN "phishing"
    ELSE IF reportingOptions.at[2] = "true" THEN "notJunk"
    ELSE "phishing"
Category(reportingOptions) ==
    IF ~reportingOptions.present THEN "phishing"
    ELSE IF reportingOptions.at[0] = "true" THEN "phishing"
    ELSE IF reportingOptions.at[1] = "true" THEN "spam"
    ELSE IF reportingOptions.at[2] = "true" THEN "notJunk"
    ELSE "phishing"

\* getRecipientEmailAddress: userProfile && userProfile.emailAddress
RecipientAvailableUnchecked(profile) == profile.present
RecipientAvailable(profile) ==
    profile.present /\ profile.emailAddress # NoString
RecipientError == <<"Unable to get user email address">>

\* getCurrentMessageUrl: !item and item.itemId
ItemSelected(item) == item.present
NoItemError == <<"No email item is currently selected.">>
ItemIdAlwaysAvailable(item) == TRUE
ItemIdAvailable(item) == item.itemId # NoString
NoItemIdError == <<"Item ID is not available - cannot get message URL">>

\* getCurrentMessageUrl: the identifier handed to convertToRestId is the
\* const captured before the GET, not the host's item at conversion time
ItemIdReRead(captured, current) == current.itemId
ItemIdToConvert(captured, current) == captured

\* getCurrentUserId: userProfile && userProfile.id
UserIdFound(profile) == profile.present /\ profile.id # NoString
UserIdError == <<"Unable to retrieve user ID from Graph API">>

\* the template string of getCurrentMessageUrl
MessageUrlMe(user, restId) ==
    <<"https://graph.microsoft.com/beta/me/messages/">> \o restId
MessageUrl(user, restId) ==
    <<"https://graph.microsoft.com/beta/users/">> \o user
        \o <<"/messages/">> \o restId

\* makeGraphRequest and makeGraphPostRequest: the checks of path and
\* queryParams that precede the fetch
ValidPath(path) == path # NoString /\ Head(path) = "/"
ValidQuery(queryParams) == queryParams = NoString \/ Head(queryParams) = "?"
MePath == <<"/", "m", "e">>
MeQuery == <<"?", "$", "s", "e", "l", "e", "c", "t", "=", "i", "d">>
ThreatPath == <<"/", "security/threatSubmission/emailThreats">>

\* makeGraphRequest: the Error of a response that is not ok
GetErrorMessage(response) == <<response.statusText>>

\* makeGraphPostRequest: the Error of a response that is not ok
PostErrorMessage(response) ==
    LET errorMessage == <<response.status, " ", response.statusText>>
        errorData == response.data
    IN  IF errorData.parse = "SyntaxError" THEN
            errorMessage \o <<": ", errorData.text>>
        ELSE IF errorData.parse = "null" THEN
            \* reading .error of null throws inside the try
            errorMessage \o <<": ", errorData.text>>
        ELSE IF errorData.error = "truthy" THEN
            errorMessage \o
                <<": ", IF errorData.message # "" THEN errorData.message
                        ELSE errorData.errorJson>>
        ELSE errorMessage

\* the catch blocks that pass an Error on
makeGraphPostRequestCatch(error) == error
getCurrentUserIdCatch(error) == error
getCurrentMessageUrlCatch(error) == error
submitEmailThreatCatchWraps(error) == <<"Failed to submit email threat">>
submitEmailThreatCatch(error) == error

\* onSpamReport's try block after submitEmailThreat returned, and its catch
\* block: the event.completed calls made and the Error that leaves the
\* handler, given which of the calls throw
OnSpamReportSuccess(throws1, throws2) ==
    [signals |-> IF throws1
                 THEN <<[allowEvent |-> TRUE], [allowEvent |-> FALSE]>>
                 ELSE <<[allowEvent |-> TRUE]>>,
     escaped |-> IF throws1 /\ throws2 THEN CompletedError ELSE NoError]
OnSpamReportCatchRethrows(error, throws) ==
    [signals |-> <<>>, escaped |-> error]
OnSpamReportCatch(error, throws) ==
    [signals |-> <<[allowEvent |-> FALSE]>>,
     escaped |-> IF throws THEN CompletedError ELSE NoError]

----------------------------------------------------------------------------
\* The run of onSpamReport

\* positions at which the handler is suspended on the host or the network
Suspended == {"initialize", "ssoGetAccessToken", "fetchGet", "fetchPost"}

\* one "completed" entry in the call log per event.completed call
CompletedCalls(outcome) == [i \in 1..Len(outcome.signals) |-> "completed"]

\* onSpamReport is invoked and runs to `await accountManager.initialize()`
Init ==
    /\ pc = "initialize"
    /\ options \in OptionsSet
    /\ mailboxItem \in Items
    /\ userProfile \in UserProfiles
    /\ itemAtInvoke = mailboxItem
    /\ itemAtToken = NoItem
    /\ itemRead = NoItem
    /\ category = ""
    /\ accessToken = NoString
    /\ recipientEmail = NoString
    /\ itemId = NoString
    /\ userId = NoString
    /\ messageUrl = NoString
    /\ body = NoReport
    /\ raised = NoRaise
    /\ submitError = NoError
    /\ getResponse = NoGetResponse
    /\ postResponse = NoResponse
    /\ calls = <<"initialize">>
    /\ signals = <<>>
    /\ escaped = NoError
    /\ nChanges = 0

\* the catch block of onSpamReport runs on `rejection`; `error` was raised
\* by `step`, after the calls `issued` had been made
Caught(step, error, rejection, issued) ==
    \E throws \in BOOLEAN :
        LET outcome == OnSpamReportCatch(rejection, throws)
        IN  /\ raised' = [step |-> step, error |-> error]
            /\ signals' = signals \o outcome.signals
            /\ escaped' = outcome.escaped
            /\ calls' = calls \o issued \o CompletedCalls(outcome)
            /\ pc' = "done"

\* submitEmailThreat rejects: its catch block passes `rejection` on to
\* onSpamReport
SubmitFails(step, error, rejection, issued) ==
    /\ submitError' = submitEmailThreatCatch(rejection)
    /\ Caught(step, error, submitEmailThreatCatch(rejection), issued)

\* accountManager.initialize() rejects
InitializeRejects ==
    /\ pc = "initialize"
    /\ Caught("initialize", InitializeError, InitializeError, <<>>)
    /\ UNCHANGED <<options, mailboxItem, userProfile, category, accessToken,
                   recipientEmail, itemId, userId, messageUrl, body,
                   submitError, getResponse, postResponse, itemAtInvoke,
                   itemAtToken, itemRead, nChanges>>

\* accountManager.initialize() resolves: the category is derived and
\* submitEmailThreat asks for the token
InitializeResolves ==
    /\ pc = "initialize"
    /\ category' = Category(options)
    /\ calls' = Append(calls, "ssoGetAccessToken")
    /\ pc' = "ssoGetAccessToken"
    /\ UNCHANGED <<options, mailboxItem, userProfile, accessToken,
                   recipientEmail, itemId, userId, messageUrl, body, raised,
                   submitError, getResponse, postResponse, signals, escaped,
                   itemAtInvoke, itemAtToken, itemRead, nChanges>>

\* accountManager.ssoGetAccessToken rejects
TokenRejects ==
    /\ pc = "ssoGetAccessToken"
    /\ SubmitFails("ssoGetAccessToken", TokenError, TokenError, <<>>)
    /\ UNCHANGED <<options, mailboxItem, userProfile, category, accessToken,
                   recipientEmail, itemId, userId, messageUrl, body,
                   getResponse, postResponse, itemAtInvoke, itemAtToken,
                   itemRead, nChanges>>

\* accountManager.ssoGetAccessToken resolves
TokenResolves ==
    /\ pc = "ssoGetAccessToken"
    /\ accessToken' \in Tokens
    /\ itemAtToken' = mailboxItem
    /\ pc' = "getRecipientEmailAddress"
    /\ UNCHANGED <<options, mailboxItem, userProfile, category,
                   recipientEmail, itemId, userId, messageUrl, body, raised,
                   submitError, getResponse, postResponse, calls, signals,
                   escaped, itemAtInvoke, itemRead, nChanges>>

\* getRecipientEmailAddress finds no address in the host's user profile
GetRecipientEmailAddressRejects ==
    /\ pc = "getRecipientEmailAddress"
    /\ ~RecipientAvailable(userProfile)
    /\ SubmitFails("getRecipientEmailAddress", RecipientError, RecipientError,
                   <<"getRecipientEmailAddress">>)
    /\ UNCHANGED <<options, mailboxItem, userProfile, category, accessToken,
                   recipientEmail, itemId, userId, messageUrl, body,
                   getResponse, postResponse, itemAtInvoke, itemAtToken,
                   itemRead, nChanges>>

\* getRecipientEmailAddress resolves with the host's mailbox address
GetRecipientEmailAddressResolves ==
    /\ pc = "getRecipientEmailAddress"
    /\ RecipientAvailable(userProfile)
    /\ recipientEmail' = userProfile.emailAddress
    /\ calls' = Append(calls, "getRecipientEmailAddress")
    /\ pc' = "getCurrentMessageUrl"
    /\ UNCHANGED <<options, mailboxItem, userProfile, category, accessToken,
                   itemId, userId, messageUrl, body, raised, submitError,
                   getResponse, postResponse, signals, escaped, itemAtInvoke,
                   itemAtToken, itemRead, nChanges>>

\* getCurrentMessageUrl finds no item, or an item without itemId
GetCurrentMessageUrlRejects ==
    /\ pc = "getCurrentMessageUrl"
    /\ ~(ItemSelected(mailboxItem) /\ ItemIdAvailable(mailboxItem))
    /\ itemRead' = mailboxItem
    /\ LET error == IF ~ItemSelected(mailboxItem) THEN NoItemError
                    ELSE NoItemIdError
       IN  SubmitFails("mailbox.item", error, error, <<"mailbox.item">>)
    /\ UNCHANGED <<options, mailboxItem, userProfile, category, accessToken,
                   recipientEmail, itemId, userId, messageUrl, body,
                   getResponse, postResponse, itemAtInvoke, itemAtToken,
                   nChanges>>

\* getCurrentMessageUrl captures item.itemId and getCurrentUserId issues
\* GET /me?$select=id
GetCurrentMessageUrlRequests ==
    /\ pc = "getCurrentMessageUrl"
    /\ ItemSelected(mailboxItem) /\ ItemIdAvailable(mailboxItem)
    /\ ValidPath(MePath) /\ ValidQuery(MeQuery)
    /\ itemRead' = mailboxItem
    /\ itemId' = mailboxItem.itemId
    /\ calls' = calls \o <<"mailbox.item", "GET /me">>
    /\ pc' = "fetchGet"
    /\ UNCHANGED <<options, mailboxItem, userProfile, category, accessToken,
                   recipientEmail, userId, messageUrl, body, raised,
                   submitError, getResponse, postResponse, signals, escaped,
                   itemAtInvoke, itemAtToken, nChanges>>

\* the fetch of GET /me rejects, or the body of an ok response is not JSON
GetMeRejects ==
    /\ pc = "fetchGet"
    /\ \E error \in {FetchError, JsonError} :
        SubmitFails("GET /me", error,
                    getCurrentMessageUrlCatch(getCurrentUserIdCatch(error)),
                    <<>>)
    /\ UNCHANGED <<options, mailboxItem, userProfile, category, accessToken,
                   recipientEmail, itemId, userId, messageUrl, body,
                   getResponse, postResponse, itemAtInvoke, itemAtToken,
                   itemRead, nChanges>>

\* GET /me answers with a status that is not ok (makeGraphRequest throws),
\* or with a profile without id (getCurrentUserId throws)
GetMeFails ==
    /\ pc = "fetchGet"
    /\ \E response \in GetResponses :
        /\ ~(response.ok /\ UserIdFound(response.profile))
        /\ getResponse' = response
        /\ LET error == IF response.ok THEN UserIdError
                        ELSE GetErrorMessage(response)
           IN  SubmitFails("GET /me", error,
                   getCurrentMessageUrlCatch(getCurrentUserIdCatch(error)),
                   <<>>)
    /\ UNCHANGED <<options, mailboxItem, userProfile, category, accessToken,
                   recipientEmail, itemId, userId, messageUrl, body,
                   postResponse, itemAtInvoke, itemAtToken, itemRead,
                   nChanges>>

\* GET /me answers with the user's id: the identifier is converted, the
\* message URL and the request body are built and the POST is issued
GetMeResolves ==
    /\ pc = "fetchGet"
    /\ \E response \in GetResponses :
        /\ response.ok /\ UserIdFound(response.profile)
        /\ getResponse' = response
        /\ userId' = response.profile.id
        /\ messageUrl' =
             MessageUrl(response.profile.id,
                        convertToRestId(ItemIdToConvert(itemId, mailboxItem)))
    /\ body' = [category |-> category,
                recipientEmailAddress |-> recipientEmail,
                messageUrl |-> messageUrl']
    /\ ValidPath(ThreatPath)
    /\ calls' = calls \o <<"convertToRestId", "POST">>
    /\ pc' = "fetchPost"
    /\ UNCHANGED <<options, mailboxItem, userProfile, category, accessToken,
                   recipientEmail, itemId, raised, submitError, postResponse,
                   signals, escaped, itemAtInvoke, itemAtToken, itemRead,
                   nChanges>>

\* the fetch of the POST rejects, or a body cannot be read
PostRejects ==
    /\ pc = "fetchPost"
    /\ \E error \in {FetchError, JsonError} :
        SubmitFails("POST", error, makeGraphPostRequestCatch(error), <<>>)
    /\ UNCHANGED <<options, mailboxItem, userProfile, category, accessToken,
                   recipientEmail, itemId, userId, messageUrl, body,
                   getResponse, postResponse, itemAtInvoke, itemAtToken,
                   itemRead, nChanges>>

\* the POST answers with a status that is not ok
PostFails ==
    /\ pc = "fetchPost"
    /\ \E response \in PostResponses :
        /\ ~response.ok
        /\ postResponse' = response
        /\ SubmitFails("POST", PostErrorMessage(response),
                       makeGraphPostRequestCatch(PostErrorMessage(response)),
                       <<>>)
    /\ UNCHANGED <<options, mailboxItem, userProfile, category, accessToken,
                   recipientEmail, itemId, userId, messageUrl, body,
                   getResponse, itemAtInvoke, itemAtToken, itemRead, nChanges>>

\* the POST answers ok: submitEmailThreat returns and onSpamReport signals
\* success; an Error thrown by that call lands in the catch block
PostResolves ==
    /\ pc = "fetchPost"
    /\ \E response \in PostResponses :
        /\ response.ok
        /\ postResponse' = response
    /\ \E throws1, throws2 \in BOOLEAN :
        LET outcome == OnSpamReportSuccess(throws1, throws2)
        IN  /\ raised' = IF throws1
                         THEN [step |-> "completed", error |-> CompletedError]
                         ELSE raised
            /\ signals' = signals \o outcome.signals
            /\ escaped' = outcome.escaped
            /\ calls' = calls \o CompletedCalls(outcome)
            /\ pc' = "done"
    /\ UNCHANGED <<options, mailboxItem, userProfile, category, accessToken,
                   recipientEmail, itemId, userId, messageUrl, body,
                   submitError, getResponse, itemAtInvoke, itemAtToken,
                   itemRead, nChanges>>

\* the host changes the selected item while the handler is suspended
SelectItem ==
    /\ pc \in Suspended
    /\ nChanges < MaxSelectionChanges
    /\ \E item \in Items \ {mailboxItem} : mailboxItem' = item
    /\ nChanges' = nChanges + 1
    /\ UNCHANGED <<pc, options, userProfile, category, accessToken,
                   recipientEmail, itemId, userId, messageUrl, body, raised,
                   submitError, getResponse, postResponse, calls, signals,
                   escaped, itemAtInvoke, itemAtToken, itemRead>>

Next ==
    \/ InitializeRejects
    \/ InitializeResolves
    \/ TokenRejects
    \/ TokenResolves
    \/ GetRecipientEmailAddressRejects
    \/ GetRecipientEmailAddressResolves
    \/ GetCurrentMessageUrlRejects
    \/ GetCurrentMessageUrlRequests
    \/ GetMeRejects
    \/ GetMeFails
    \/ GetMeResolves
    \/ PostRejects
    \/ PostFails
    \/ PostResolves
    \/ SelectItem

Spec == Init /\ [][Next]_vars

----------------------------------------------------------------------------
\* Properties

Issued(call) == \E i \in 1..Len(calls) : calls[i] = call

Block == [allowEvent |-> FALSE]

\* auth initialization, token acquisition, recipient lookup, user-id lookup,
\* message URL construction and the POST have all succeeded
AllStepsSucceeded ==
    /\ Issued("ssoGetAccessToken")
    /\ accessToken # NoString
    /\ recipientEmail # NoString
    /\ userId # NoString
    /\ messageUrl # NoString
    /\ postResponse.ok

\* C1: event.completed is called exactly once per invocation of
\* onSpamReport, whatever the outcome of each step and of the completion
\* call itself: never twice, and once when the handler has finished.
C1_CompletedExactlyOnce ==
    /\ Len(signals) <= 1
    /\ pc = "done" => Len(signals) = 1

\* C2: the completion signal carries allowEvent = true exactly when every
\* step succeeded; when a step fails the handler signals allowEvent = false
\* and nothing else, and the Error of a step never leaves the handler.
C2_AllowEventIffAllSucceeded ==
    /\ \A i \in 1..Len(signals) : signals[i].allowEvent => AllStepsSucceeded
    /\ pc = "done" =>
        /\ Len(signals) >= 1
        /\ signals[1].allowEvent <=> AllStepsSucceeded
        /\ ~AllStepsSucceeded => signals = <<Block>>
        /\ escaped \in {NoError, CompletedError}
        /\ (escaped = NoError /\ raised.step # "completed") =>
               signals = <<[allowEvent |-> AllStepsSucceeded]>>

C2_Witness ==
    /\ pc = "done"
    /\ raised = [step |-> "mailbox.item", error |-> NoItemError]
    /\ signals = <<Block>>
    /\ escaped = NoError

\* C3: the category handed to submitEmailThreat is phishing if index 0 of
\* the options is true, otherwise spam if index 1 is true, otherwise notJunk
\* if index 2 is true, otherwise (nothing true, or no options) phishing.
C3_CategoryPrecedence ==
    Issued("ssoGetAccessToken") =>
        LET is(i) == options.present /\ options.at[i] = "true"
        IN  /\ is(0) => category = "phishing"
            /\ (~is(0) /\ is(1)) => category = "spam"
            /\ (~is(0) /\ ~is(1) /\ is(2)) => category = "notJunk"
            /\ (~is(0) /\ ~is(1) /\ ~is(2)) => category = "phishing"
            /\ Issued("POST") => body.category = category

C3_Witness ==
    /\ Issued("POST")
    /\ options.present
    /\ options.at[0] = "true" /\ options.at[1] = "true"
    /\ body.category = "phishing"

\* C4: whenever the POST has been issued the posted report has a category
\* among spam, phishing, notJunk, a non-empty recipientEmailAddress and a
\* non-empty messageUrl; when the host has no mailbox address, or no message
\* URL was obtained, no POST is issued.
C4_PostedReportValid ==
    /\ Issued("POST") =>
        /\ body.category \in {"spam", "phishing", "notJunk"}
        /\ body.recipientEmailAddress # NoString
        /\ body.recipientEmailAddress = userProfile.emailAddress
        /\ body.messageUrl # NoString
    /\ (~userProfile.present \/ userProfile.emailAddress = NoString) =>
        /\ ~Issued("POST")
        /\ Issued("getRecipientEmailAddress") => submitError = RecipientError
    /\ messageUrl = NoString =>
        /\ ~Issued("POST")
        /\ (pc = "done" /\ Issued("mailbox.item")) => submitError # NoError

C4_Witness ==
    /\ pc = "done"
    /\ Issued("POST")
    /\ body.category = "spam"
    /\ body.recipientEmailAddress = <<"a", "@", "b">>

\* C5: a non-success response to the POST makes the call fail with an Error
\* whose message carries the status code and, when the body is JSON with an
\* error member, the embedded error message; when the body is not JSON, or
\* is JSON without an error member, the message carries the raw text.
C5_PostErrorCarriesDetail ==
    (pc = "done" /\ postResponse.status # "" /\ ~postResponse.ok) =>
        /\ Carries(submitError, postResponse.status)
        /\ (postResponse.data.parse = "value"
                /\ postResponse.data.message # "") =>
               Carries(submitError, postResponse.data.message)
        /\ (postResponse.data.parse # "value"
                \/ postResponse.data.error = "absent") =>
               Carries(submitError, postResponse.data.text)

\* C6: a non-success response to GET /me makes the call fail with an Error
\* that carries the HTTP status code of the response.
C6_GetErrorCarriesStatus ==
    (pc = "done" /\ getResponse.status # "" /\ ~getResponse.ok) =>
        Carries(submitError, getResponse.status)

\* C7: when getCurrentMessageUrl finds no item selected, or an item whose
\* itemId is unavailable, it fails with a selection error and neither the
\* GET /me, nor the identifier conversion, nor the POST is issued.
C7_NoSelectionNoRequests ==
    (Issued("mailbox.item")
        /\ (~itemRead.present \/ itemRead.itemId = NoString)) =>
        /\ submitError = IF ~itemRead.present THEN NoItemError
                         ELSE NoItemIdError
        /\ ~Issued("GET /me")
        /\ ~Issued("convertToRestId")
        /\ ~Issued("POST")
        /\ messageUrl = NoString

C7_Witness ==
    /\ pc = "done"
    /\ itemRead = [present |-> TRUE, itemId |-> NoString]
    /\ submitError = NoItemIdError

\* C8: for the item identifier i that getCurrentMessageUrl read and the
\* non-empty user id u that GET /me returned, the URL it resolves with is
\* https://graph.microsoft.com/beta/users/u/messages/convert(i); when the
\* profile has no id it fails with the identity error and resolves nothing.
C8_MessageUrlForm ==
    /\ messageUrl # NoString =>
        /\ getResponse.ok
        /\ userId = getResponse.profile.id
        /\ userId # NoString
        /\ messageUrl =
             <<"https://graph.microsoft.com/beta/users/">> \o userId
                 \o <<"/messages/">> \o convertToRestId(itemRead.itemId)
        /\ itemRead.itemId = <<"B", "/", "+", "=">> =>
             messageUrl =
                <<"https://graph.microsoft.com/beta/users/">> \o userId
                    \o <<"/messages/", "B", "-", "_", "=">>
    /\ (getResponse.ok /\ ~(getResponse.profile.present
                            /\ getResponse.profile.id # NoString)) =>
        /\ submitError = UserIdError
        /\ messageUrl = NoString
        /\ ~Issued("POST")

C8_Witness ==
    /\ itemRead.itemId = <<"B", "/", "+", "=">>
    /\ messageUrl =
         <<"https://graph.microsoft.com/beta/users/", "u", "1",
           "/messages/", "B", "-", "_", "=">>

\* C9: submitEmailThreat attempts token acquisition, recipient lookup,
\* GET /me and POST in that order, each at most once; after a step failed
\* no later step is attempted and submitEmailThreat rejects with exactly the
\* Error that step raised.
SubmitSteps == <<"ssoGetAccessToken", "getRecipientEmailAddress", "GET /me", "POST">>

IsSubmitStep(call) == \E i \in 1..Len(SubmitSteps) : SubmitSteps[i] = call

Attempted == SelectSeq(calls, IsSubmitStep)

C9_OrderAndFirstFailure ==
    /\ Len(Attempted) <= Len(SubmitSteps)
    /\ Attempted = SubSeq(SubmitSteps, 1, Len(Attempted))
    /\ (pc = "done" /\ IsSubmitStep(raised.step)) =>
        /\ Attempted[Len(Attempted)] = raised.step
        /\ submitError = raised.error
    /\ (pc = "done" /\ raised.step = "mailbox.item") =>
        /\ Attempted = SubSeq(SubmitSteps, 1, 2)
        /\ submitError = raised.error
    /\ (pc = "done" /\ submitError # NoError) =>
        /\ submitError = raised.error
        /\ ~postResponse.ok

C9_Witness ==
    /\ pc = "done"
    /\ raised = [step |-> "GET /me", error |-> <<"Forbidden">>]
    /\ submitError = <<"Forbidden">>
    /\ Attempted = SubSeq(SubmitSteps, 1, 3)

\* the URL that identifies the message `item` for the user `user`
UrlOf(user, item) ==
    <<"https://graph.microsoft.com/beta/users/">> \o user
        \o <<"/messages/">> \o convertToRestId(item.itemId)

\* C10 (as stated): the message the posted messageUrl identifies is the one
\* that was selected when onSpamReport was invoked, whatever the host
\* selects while the handler waits.
C10_ReportsItemAtInvocation ==
    Issued("POST") => body.messageUrl = UrlOf(userId, itemAtInvoke)

\* C10 (amended): the message the posted messageUrl identifies is the one
\* that was selected when getCurrentMessageUrl read the host's item, which
\* is when token acquisition settled; a selection change during GET /me or
\* the POST does not alter it.
C10_ReportsItemAtTokenArrival ==
    Issued("POST") =>
        /\ body.messageUrl = UrlOf(userId, itemAtToken)
        /\ itemRead = itemAtToken

C10_Witness ==
    /\ Issued("POST")
    /\ itemAtInvoke # itemAtToken
    /\ mailboxItem # itemAtToken
    /\ body.messageUrl = UrlOf(userId, itemAtToken)

====
